---- MODULE Spec2Model ----
(***************************************************************************)
(* Model of BangumiDatabase (src/src/module/database/bangumi.py): the      *)
(* schema synchronizer, the record codec, the record store and the title   *)
(* reconciler.                                                             *)
(*                                                                         *)
(* Python strings are sequences of one-character strings, so that the      *)
(* substring test (`in`), str.join and str.split are computed and not      *)
(* assumed.  A stored row is the flat dict produced by __data_to_db.       *)
(***************************************************************************)
EXTENDS Integers, Sequences, FiniteSets, TLC

VARIABLES rows, call, ret, adaptsLists, columns, shape, pc, got, lock

\* the table's columns and the record shape; the callers' positions, the ids
\* they hold and the holder of their critical section
others == <<columns, shape, pc, got, lock>>

vars == <<rows, call, ret, adaptsLists, columns, shape, pc, got, lock>>

---------------------------------------------------------------------------
(* Bounds of the model *)

MaxRows == 2

MaxTitles == 2

MaxLinkLen == 6

MaxListLen == 2

MaxId == 3

MaxSyncs == 2

---------------------------------------------------------------------------
(* Python str / list primitives *)

RECURSIVE Concat(_)
\* "".join(parts) for a sequence of strings
Concat(parts) ==
    IF parts = <<>> THEN <<>> ELSE Head(parts) \o Concat(Tail(parts))

\* needle in hay, for two Python strings (substring test)
StrIn(needle, hay) ==
    \E i \in 0..(Len(hay) - Len(needle)) :
        SubSeq(hay, i + 1, i + Len(needle)) = needle

\* x in lst, for a Python list (membership test)
ListIn(x, lst) == \E i \in 1..Len(lst) : lst[i] = x

RECURSIVE Join(_)
\* ",".join(lst)
Join(lst) ==
    IF lst = <<>> THEN <<>>
    ELSE IF Len(lst) = 1 THEN lst[1]
    ELSE lst[1] \o <<",">> \o Join(Tail(lst))

\* index of the first comma of s, 0 when there is none
FirstComma(s) ==
    IF \E i \in 1..Len(s) : s[i] = ","
    THEN CHOOSE i \in 1..Len(s) : s[i] = "," /\ \A j \in 1..(i - 1) : s[j] # ","
    ELSE 0

RECURSIVE SplitEmptyToNone(_)
\* a split giving no element for the empty string
SplitEmptyToNone(s) ==
    IF s = <<>> THEN <<>>
    ELSE IF FirstComma(s) = 0 THEN <<s>>
    ELSE <<SubSeq(s, 1, FirstComma(s) - 1)>>
            \o SplitEmptyToNone(SubSeq(s, FirstComma(s) + 1, Len(s)))

RECURSIVE Split(_)
\* s.split(",")
Split(s) ==
    IF FirstComma(s) = 0 THEN <<s>>
    ELSE <<SubSeq(s, 1, FirstComma(s) - 1)>>
            \o Split(SubSeq(s, FirstComma(s) + 1, Len(s)))

\* index of the first occurrence of x in lst, 0 when absent
FirstIndex(x, lst) ==
    IF ListIn(x, lst)
    THEN CHOOSE i \in 1..Len(lst) : lst[i] = x /\ \A j \in 1..(i - 1) : lst[j] # x
    ELSE 0

\* lst.remove(x): drops the first element equal to x
ListRemove(lst, x) ==
    SubSeq(lst, 1, FirstIndex(x, lst) - 1)
        \o SubSeq(lst, FirstIndex(x, lst) + 1, Len(lst))

RECURSIVE SeqOfLen(_, _)
\* all sequences over S of length k
SeqOfLen(S, k) ==
    IF k = 0 THEN {<<>>}
    ELSE {Append(s, x) : s \in SeqOfLen(S, k - 1), x \in S}

\* all sequences over S of length 0..n
SeqUpTo(S, n) == UNION {SeqOfLen(S, k) : k \in 0..n}


---------------------------------------------------------------------------
(* Record shape (BangumiData) and the codec *)

\* fields whose value is a Python bool
BoolFields == {"added", "eps_collect"}

\* fields whose value is a Python list of str
ListFields == {"filter", "rss_link"}

\* columns holding an integer once encoded: isinstance(item, int) in __db_to_data
IntColumns == {"id", "offset", "season", "year", "added", "eps_collect"}

\* the numeric allow-list of __db_to_data
NumericKeys == {"id", "offset", "season", "year"}

\* the list allow-list of __db_to_data
ListKeys == {"filter", "rss_link"}

\* ToDbValue joining a list with no delimiter
ToDbValueNoDelimiter(key, value) ==
    IF key \in BoolFields THEN (IF value THEN 1 ELSE 0)
    ELSE IF key \in ListFields THEN Concat(value)
    ELSE value

\* one value of __data_to_db's loop body
ToDbValue(key, value) ==
    IF key \in BoolFields THEN (IF value THEN 1 ELSE 0)
    ELSE IF key \in ListFields THEN Join(value)
    ELSE value

\* one value of __db_to_data's loop body
ToDataValue(key, item) ==
    IF key \in IntColumns
    THEN (IF key \notin NumericKeys THEN item # 0 ELSE item)
    ELSE IF key \in ListKeys THEN Split(item)
    ELSE item

data_to_db(data) ==
    [id             |-> ToDbValue("id", data.id),
     official_title |-> ToDbValue("official_title", data.official_title),
     title_raw      |-> ToDbValue("title_raw", data.title_raw),
     season         |-> ToDbValue("season", data.season),
     year           |-> ToDbValue("year", data.year),
     offset         |-> ToDbValue("offset", data.offset),
     added          |-> ToDbValue("added", data.added),
     eps_collect    |-> ToDbValue("eps_collect", data.eps_collect),
     filter         |-> ToDbValue("filter", data.filter),
     rss_link       |-> ToDbValue("rss_link", data.rss_link)]

db_to_data(db_data) ==
    [id             |-> ToDataValue("id", db_data.id),
     official_title |-> ToDataValue("official_title", db_data.official_title),
     title_raw      |-> ToDataValue("title_raw", db_data.title_raw),
     season         |-> ToDataValue("season", db_data.season),
     year           |-> ToDataValue("year", db_data.year),
     offset         |-> ToDataValue("offset", db_data.offset),
     added          |-> ToDataValue("added", db_data.added),
     eps_collect    |-> ToDataValue("eps_collect", db_data.eps_collect),
     filter         |-> ToDataValue("filter", db_data.filter),
     rss_link       |-> ToDataValue("rss_link", db_data.rss_link)]

---------------------------------------------------------------------------
(* Record store: pure parts of the handlers, over the table `tbl` *)

\* insert refusing a row whose id some stored row already has
insertIfNewId(tbl, data) ==
    IF \E i \in 1..Len(tbl) : tbl[i].id = data.id THEN tbl
    ELSE Append(tbl, data_to_db(data))

\* INSERT INTO bangumi ... : appends the encoded row
insert(tbl, data) == Append(tbl, data_to_db(data))

\* rows hit by WHERE id = :id
IdMatches(tbl, id) == {i \in 1..Len(tbl) : tbl[i].id = id}

\* update leaving the rss_link column out of the SET list
updateSkipsRssLink(tbl, data) ==
    [i \in 1..Len(tbl) |->
        IF tbl[i].id = data.id
        THEN [data_to_db(data) EXCEPT !.id = tbl[i].id, !.rss_link = tbl[i].rss_link]
        ELSE tbl[i]]

\* update keyed by title_raw and setting every column, id included
updateByTitle(tbl, data) ==
    [i \in 1..Len(tbl) |->
        IF tbl[i].title_raw = data.title_raw THEN data_to_db(data) ELSE tbl[i]]

\* UPDATE bangumi SET <every column but id> WHERE id = :id
update(tbl, data) ==
    [i \in 1..Len(tbl) |->
        IF tbl[i].id = data.id
        THEN [data_to_db(data) EXCEPT !.id = tbl[i].id]
        ELSE tbl[i]]

RECURSIVE UpdateEach(_, _)
\* executemany: the UPDATE of update, once per record of the list, in order
UpdateEach(tbl, data) ==
    IF data = <<>> THEN tbl ELSE UpdateEach(update(tbl, Head(data)), Tail(data))

\* update_list: db_data[0] raises IndexError on an empty list
update_list(tbl, data) ==
    IF data = <<>> THEN [tbl |-> tbl, raised |-> TRUE]
    ELSE [tbl |-> UpdateEach(tbl, data), raised |-> FALSE]

\* update_rss setting rss_link only, leaving added as it is
update_rssKeepsAdded(tbl, title_raw, rss_set) ==
    [i \in 1..Len(tbl) |->
        IF tbl[i].title_raw = title_raw
        THEN [tbl[i] EXCEPT !.rss_link = rss_set]
        ELSE tbl[i]]

\* UPDATE bangumi SET rss_link = :rss_link, added = 0 WHERE title_raw = :title_raw
update_rss(tbl, title_raw, rss_set) ==
    [i \in 1..Len(tbl) |->
        IF tbl[i].title_raw = title_raw
        THEN [tbl[i] EXCEPT !.rss_link = rss_set, !.added = 0]
        ELSE tbl[i]]

\* SELECT * FROM bangumi WHERE id = :id, fetchone(): the first such row, decoded
search_id(tbl, id) ==
    IF IdMatches(tbl, id) = {}
    THEN [found |-> FALSE]
    ELSE [found |-> TRUE,
          data  |-> db_to_data(tbl[CHOOSE i \in IdMatches(tbl, id) :
                                      \A j \in IdMatches(tbl, id) : i <= j])]

RECURSIVE FetchData(_)
\* __fetch_data: every fetched row, decoded
FetchData(values) ==
    IF values = <<>> THEN <<>>
    ELSE <<db_to_data(Head(values))>> \o FetchData(Tail(values))

\* SELECT * FROM bangumi WHERE added = 0
not_added(tbl) == FetchData(SelectSeq(tbl, LAMBDA row : row.added = 0))

\* gen_id counting the rows instead of taking the greatest id
gen_idByCount(tbl) == Len(tbl) + 1

\* gen_id returning the greatest id itself, without adding one
gen_idGreatest(tbl) ==
    IF Len(tbl) = 0 THEN 1
    ELSE CHOOSE m \in {tbl[i].id : i \in 1..Len(tbl)} :
             \A i \in 1..Len(tbl) : tbl[i].id <= m

\* SELECT id FROM bangumi ORDER BY id DESC LIMIT 1
gen_id(tbl) ==
    IF Len(tbl) = 0 THEN 1
    ELSE (CHOOSE m \in {tbl[i].id : i \in 1..Len(tbl)} :
             \A i \in 1..Len(tbl) : tbl[i].id <= m) + 1

\* update_result testing rowcount for truth instead of == 1
update_resultAnyRow(tbl, data) == Cardinality(IdMatches(tbl, data.id)) >= 1

\* update's return value: self._cursor.rowcount == 1
update_result(tbl, data) == Cardinality(IdMatches(tbl, data.id)) = 1

---------------------------------------------------------------------------
(* Title reconciler.  `data` is the fetchall() snapshot taken when the     *)
(* call begins; a title_dict is the sequence of its (title, meta) items in *)
(* insertion order.                                                        *)

\* the keys of a title_dict, in order
RECURSIVE DictKeys(_)
DictKeys(title_dict) ==
    IF title_dict = <<>> THEN <<>>
    ELSE <<Head(title_dict).title>> \o DictKeys(Tail(title_dict))

\* title_dict.pop(title)
DictPop(title_dict, title) ==
    SelectSeq(title_dict, LAMBDA item : item.title # title)

\* FirstMatch comparing with == instead of testing title_raw in title
FirstMatchExact(data, title) ==
    IF \E j \in 1..Len(data) : data[j].title_raw = title
    THEN CHOOSE j \in 1..Len(data) :
            /\ data[j].title_raw = title
            /\ \A h \in 1..(j - 1) : data[h].title_raw # title
    ELSE 0

\* FirstMatch taking the first pair whatever the title
FirstMatchAny(data, title) == IF Len(data) > 0 THEN 1 ELSE 0

\* the first (title_raw, rss_set) of data with title_raw in title, 0 when none
FirstMatch(data, title) ==
    IF \E j \in 1..Len(data) : StrIn(data[j].title_raw, title)
    THEN CHOOSE j \in 1..Len(data) :
            /\ StrIn(data[j].title_raw, title)
            /\ \A h \in 1..(j - 1) : ~StrIn(data[h].title_raw, title)
    ELSE 0

\* the body run for the matching pair: lines 185-188
MatchStep(st, data, j, title, rss_link) ==
    [tbl  |-> IF ~StrIn(rss_link, data[j].rss_link)
              THEN update_rss(st.tbl, data[j].title_raw,
                              data[j].rss_link \o <<",">> \o rss_link)
              ELSE st.tbl,
     dict |-> DictPop(st.dict, title)]

RECURSIVE MatchLoop(_, _, _, _, _)
\* for title in title_dict.copy().keys(): ..., from the k-th key on
MatchLoop(st, data, keys, k, rss_link) ==
    IF k > Len(keys) THEN st
    ELSE IF FirstMatch(data, keys[k]) = 0
         THEN MatchLoop(st, data, keys, k + 1, rss_link)
         ELSE MatchLoop(MatchStep(st, data, FirstMatch(data, keys[k]), keys[k], rss_link),
                        data, keys, k + 1, rss_link)

match_list(tbl, title_dict, rss_link) ==
    IF tbl = <<>> THEN [tbl |-> tbl, dict |-> title_dict]
    ELSE MatchLoop([tbl |-> tbl, dict |-> title_dict], tbl,
                   DictKeys(title_dict), 1, rss_link)

\* the text the cursor stores for a list parameter, when the connector adapts lists
BindList(rss_set) == Join(rss_set)

\* TitleStep appending rss_link without the membership test of line 209
TitleStepAlwaysAppends(st, i, title_raw, rss_link, adapts) ==
    IF adapts
    THEN [st EXCEPT !.rss_set = Append(@, rss_link),
                    !.tbl = update_rss(@, title_raw,
                                       BindList(Append(st.rss_set, rss_link)))]
    ELSE [st EXCEPT !.rss_set = Append(@, rss_link), !.raised = TRUE]

\* lines 206-211 for the title at position i of the list being iterated
TitleStep(st, i, title_raw, rss_link, adapts) ==
    IF ListIn(rss_link, st.rss_set)
    THEN IF StrIn(title_raw, st.titles[i])
         THEN [st EXCEPT !.titles = ListRemove(@, st.titles[i])]
         ELSE st
    ELSE IF adapts
         THEN [st EXCEPT !.rss_set = Append(@, rss_link),
                         !.tbl = update_rss(@, title_raw,
                                            BindList(Append(st.rss_set, rss_link)))]
         ELSE [st EXCEPT !.rss_set = Append(@, rss_link), !.raised = TRUE]

RECURSIVE TitleLoop(_, _, _, _, _)
\* for title in titles: ..., the list iterator standing at position i
TitleLoop(st, i, title_raw, rss_link, adapts) ==
    IF st.raised \/ i > Len(st.titles) THEN st
    ELSE TitleLoop(TitleStep(st, i, title_raw, rss_link, adapts),
                   i + 1, title_raw, rss_link, adapts)

RECURSIVE RowLoop(_, _, _, _, _)
\* for title_raw, rss_set in data: ..., from the j-th pair on
RowLoop(st, data, j, rss_link, adapts) ==
    IF st.raised \/ j > Len(data) THEN st
    ELSE RowLoop(TitleLoop([st EXCEPT !.rss_set = Split(data[j].rss_link)],
                           1, data[j].title_raw, rss_link, adapts),
                 data, j + 1, rss_link, adapts)

not_exist_titles(tbl, titles, rss_link, adapts) ==
    IF tbl = <<>>
    THEN [tbl |-> tbl, titles |-> titles, rss_set |-> <<>>, raised |-> FALSE]
    ELSE RowLoop([tbl |-> tbl, titles |-> titles, rss_set |-> <<>>, raised |-> FALSE],
                 tbl, 1, rss_link, adapts)

---------------------------------------------------------------------------
(* Schema synchronizer.  A shape is the sequence of (key, value) items of   *)
(* BangumiData().dict(); `cols` is the sequence of the table's column       *)
(* names, empty when the table does not exist; a row maps each column to    *)
(* its value.                                                               *)

\* the keys of a shape, in order
Keys(shp) == [i \in 1..Len(shp) |-> shp[i].key]

\* db_data = self.__data_to_db(BangumiData()), as its items
ShapeToDb(shp) ==
    [i \in 1..Len(shp) |->
        [key |-> shp[i].key, value |-> ToDbValue(shp[i].key, shp[i].value)]]

\* __python_to_sqlite_type of the encoded value of the field
python_to_sqlite_type(key) ==
    IF key \in IntColumns THEN "INTEGER NOT NULL" ELSE "TEXT NOT NULL"

\* SQLite compares column names without regard to case
Lower(name) == IF name = "ID" THEN "id" ELSE name

\* ALTER TABLE ... ADD COLUMN key: SQLite refuses a name the table already has
DuplicateColumn(cols, key) == \E i \in 1..Len(cols) : Lower(cols[i]) = Lower(key)

\* DEFAULT {value}: the text of the value is pasted unquoted, and SQLite parses
\* it only when it is one token (a number, or a word without comma)
AcceptsDefault(key, value) ==
    \/ python_to_sqlite_type(key) = "INTEGER NOT NULL"
    \/ value # <<>> /\ ~StrIn(<<",">>, value)

\* the row with the new column key holding the default
WithColumn(row, key, value) ==
    [c \in DOMAIN row \cup {key} |-> IF c = key THEN value ELSE row[c]]

\* ALTER TABLE bangumi ADD COLUMN key <type> DEFAULT value
AlterAddColumn(st, key, value) ==
    IF DuplicateColumn(st.cols, key) \/ ~AcceptsDefault(key, value)
    THEN [st EXCEPT !.raised = TRUE]
    ELSE [cols   |-> Append(st.cols, key),
          tbl    |-> [i \in 1..Len(st.tbl) |-> WithColumn(st.tbl[i], key, value)],
          raised |-> FALSE]

\* AddColumn writing the default into a column the table already has
AddColumnResets(st, existing, db_data, i) ==
    IF db_data[i].key \notin existing
    THEN AlterAddColumn(st, db_data[i].key, db_data[i].value)
    ELSE [st EXCEPT !.tbl = [r \in 1..Len(st.tbl) |->
                                WithColumn(st.tbl[r], db_data[i].key, db_data[i].value)]]

\* lines 22-24 for the i-th item of db_data
AddColumn(st, existing, db_data, i) ==
    IF db_data[i].key \notin existing
    THEN AlterAddColumn(st, db_data[i].key, db_data[i].value)
    ELSE st

RECURSIVE AddLoop(_, _, _, _)
\* for key, value in db_data.items(): ..., from the i-th item on
AddLoop(st, existing, db_data, i) ==
    IF st.raised \/ i > Len(db_data) THEN st
    ELSE AddLoop(AddColumn(st, existing, db_data, i), existing, db_data, i + 1)

\* CREATE TABLE IF NOT EXISTS bangumi (<every key>)
CreateIfNotExists(cols, shp) == IF cols = <<>> THEN Keys(shp) ELSE cols

update_table(cols, tbl, shp) ==
    AddLoop([cols |-> CreateIfNotExists(cols, shp), tbl |-> tbl, raised |-> FALSE],
            {CreateIfNotExists(cols, shp)[i] : i \in 1..Len(CreateIfNotExists(cols, shp))},
            ShapeToDb(shp), 1)

---------------------------------------------------------------------------
(* Inputs *)

\* feed identifiers handed to the reconciler: "x", "y", "xy" and "y,x"
FeedIds == {<<"x">>, <<"y">>, <<"x", "y">>, <<"y", ",", "x">>}

\* release titles: "A1", "AB" and "1"
Titles == {<<"A", "1">>, <<"A", "B">>, <<"1">>}

\* title_raw patterns: "A" and "B"
TitleRaws == {<<"A">>, <<"B">>}

\* the metadata a candidate mapping holds for a title, one value per title
MetaOf(title) == <<"m">> \o title

\* a BangumiData with the given id and contents
Bangumi(id, title_raw, flag, num, filter, rss_link) ==
    [id             |-> id,
     official_title |-> <<"T">> \o title_raw,
     title_raw      |-> title_raw,
     season         |-> num,
     year           |-> num,
     offset         |-> num,
     added          |-> flag,
     eps_collect    |-> flag,
     filter         |-> filter,
     rss_link       |-> rss_link]

\* the records handed to insert and update
StoreRecords ==
    {Bangumi(i, <<"A">>, FALSE, 1, <<<<"f">>>>, <<<<"x">>>>) : i \in 1..MaxId}
    \cup {Bangumi(i, <<"B">>, TRUE, 0, <<<<"f">>, <<"g">>>>, <<<<"x">>, <<"y">>>>) : i \in 1..MaxId}
    \cup {Bangumi(i, <<"A">>, TRUE, 1, <<<<"f">>>>, <<>>) : i \in 1..MaxId}
    \cup {Bangumi(i, <<"B">>, FALSE, 0, <<<<"f">>>>, <<<<"y", ",", "x">>>>) : i \in 1..MaxId}

\* string elements of the sequences handed to the codec: "", "x" and "y,x"
CodecElems == {<<>>, <<"x">>, <<"y", ",", "x">>}

\* the records handed to the codec
CodecRecords ==
    {[id             |-> n[1],
      official_title |-> <<"T">>,
      title_raw      |-> <<"A">>,
      season         |-> n[2],
      year           |-> n[3],
      offset         |-> n[4],
      added          |-> b[1],
      eps_collect    |-> b[2],
      filter         |-> f,
      rss_link       |-> r] :
        n \in SeqOfLen({0, 1}, 4), b \in SeqOfLen(BOOLEAN, 2),
        f \in SeqUpTo(CodecElems, MaxListLen), r \in SeqUpTo(CodecElems, MaxListLen)}

NoCall == [op |-> "none"]

NoRet == [kind |-> "none"]

\* the callers of the store
Callers == {"c1", "c2"}

\* the fields of BangumiData, in the order of its dict()
FieldNames ==
    <<"id", "official_title", "title_raw", "season", "year", "offset",
      "added", "eps_collect", "filter", "rss_link">>

\* a synchronized table, the shape of Bangumi, and callers that are not running
InitOthers ==
    /\ columns = FieldNames
    /\ shape = [i \in 1..Len(FieldNames) |->
                   [key   |-> FieldNames[i],
                    value |-> Bangumi(0, <<"t">>, FALSE, 0, <<>>, <<>>)[FieldNames[i]]]]
    /\ pc = [c \in Callers |-> "idle"]
    /\ got = [c \in Callers |-> 0]
    /\ lock = "none"

---------------------------------------------------------------------------
(* Record store: the handlers as actions.  `call` holds the call in       *)
(* progress with the table as it was when the call began, `ret` its       *)
(* result; Return hands the result to the caller.                         *)

InitStore ==
    /\ rows = <<>>
    /\ call = NoCall
    /\ ret = NoRet
    /\ adaptsLists = FALSE
    /\ InitOthers

Insert(data) ==
    /\ call = NoCall
    /\ Len(rows) < MaxRows
    /\ rows' = insert(rows, data)
    /\ call' = [op |-> "insert", data |-> data, pre |-> rows]
    /\ ret' = NoRet
    /\ UNCHANGED <<adaptsLists, others>>

Update(data) ==
    /\ call = NoCall
    /\ rows' = update(rows, data)
    /\ call' = [op |-> "update", data |-> data, pre |-> rows]
    /\ ret' = [kind |-> "bool", val |-> update_result(rows, data)]
    /\ UNCHANGED <<adaptsLists, others>>

SearchId(id) ==
    /\ call = NoCall
    /\ call' = [op |-> "search_id", id |-> id, pre |-> rows]
    /\ ret' = [kind |-> "data", val |-> search_id(rows, id)]
    /\ UNCHANGED <<rows, adaptsLists, others>>

GenId ==
    /\ call = NoCall
    /\ call' = [op |-> "gen_id", pre |-> rows]
    /\ ret' = [kind |-> "int", val |-> gen_id(rows)]
    /\ UNCHANGED <<rows, adaptsLists, others>>

Return ==
    /\ call # NoCall
    /\ call' = NoCall
    /\ ret' = NoRet
    /\ UNCHANGED <<rows, adaptsLists, others>>

NextStore ==
    \/ \E data \in StoreRecords : Insert(data)
    \/ \E data \in StoreRecords : Update(data)
    \/ \E id \in 1..MaxId : SearchId(id)
    \/ GenId
    \/ Return

SpecStore == InitStore /\ [][NextStore]_vars

---------------------------------------------------------------------------
(* Record codec: encode then decode one record *)

InitCodec ==
    /\ rows = <<>>
    /\ call \in {[op |-> "codec", data |-> data] : data \in CodecRecords}
    /\ ret = NoRet
    /\ adaptsLists = FALSE
    /\ InitOthers

RoundTrip ==
    /\ call.op = "codec"
    /\ ret = NoRet
    /\ ret' = [kind |-> "codec",
               enc  |-> data_to_db(call.data),
               dec  |-> db_to_data(data_to_db(call.data))]
    /\ UNCHANGED <<rows, call, adaptsLists, others>>

NextCodec == RoundTrip

SpecCodec == InitCodec /\ [][NextCodec]_vars

---------------------------------------------------------------------------
(* Title reconciler: the two batch calls as actions, over any table that  *)
(* inserts with generated ids produce.                                    *)

\* the feed sets of the records inserted before reconciliation: ["x"] and ["xy"]
InitLinks == {<<<<"x">>>>, <<<<"x", "y">>>>}

ReconcileRecords ==
    {Bangumi(0, t, TRUE, 1, <<<<"f">>>>, l) : t \in TitleRaws, l \in InitLinks}

\* the table after insert(r) of each record of recs, with id = gen_id()
RECURSIVE InsertAll(_, _)
InsertAll(tbl, recs) ==
    IF recs = <<>> THEN tbl
    ELSE InsertAll(insert(tbl, [Head(recs) EXCEPT !.id = gen_id(tbl)]), Tail(recs))

ReconcileStores ==
    {InsertAll(<<>>, recs) : recs \in SeqUpTo(ReconcileRecords, MaxRows)}

\* candidate mappings: up to MaxTitles items with pairwise distinct titles
TitleDicts ==
    {d \in SeqUpTo({[title |-> t, meta |-> MetaOf(t)] : t \in Titles}, MaxTitles) :
        \A a, b \in 1..Len(d) : a # b => d[a].title # d[b].title}

TitleLists == SeqUpTo(Titles, MaxTitles)

LinksFit(tbl) == \A i \in 1..Len(tbl) : Len(tbl[i].rss_link) <= MaxLinkLen

InitReconcile ==
    /\ rows \in ReconcileStores
    /\ call = NoCall
    /\ ret = NoRet
    /\ adaptsLists \in BOOLEAN
    /\ InitOthers

MatchList(title_dict, rss_link) ==
    /\ call = NoCall
    /\ LinksFit(match_list(rows, title_dict, rss_link).tbl)
    /\ rows' = match_list(rows, title_dict, rss_link).tbl
    /\ call' = [op |-> "match_list", title_dict |-> title_dict,
                rss_link |-> rss_link, pre |-> rows]
    /\ ret' = [kind |-> "returned",
               val  |-> match_list(rows, title_dict, rss_link).dict]
    /\ UNCHANGED <<adaptsLists, others>>

NotExistTitles(titles, rss_link) ==
    /\ call = NoCall
    /\ LinksFit(not_exist_titles(rows, titles, rss_link, adaptsLists).tbl)
    /\ rows' = not_exist_titles(rows, titles, rss_link, adaptsLists).tbl
    /\ call' = [op |-> "not_exist_titles", titles |-> titles,
                rss_link |-> rss_link, pre |-> rows]
    /\ ret' = IF not_exist_titles(rows, titles, rss_link, adaptsLists).raised
              THEN [kind |-> "raised"]
              ELSE [kind |-> "returned",
                    val  |-> not_exist_titles(rows, titles, rss_link, adaptsLists).titles]
    /\ UNCHANGED <<adaptsLists, others>>

Next ==
    \/ \E d \in TitleDicts, f \in FeedIds : MatchList(d, f)
    \/ \E t \in TitleLists, f \in FeedIds : NotExistTitles(t, f)
    \/ Return

Spec == InitReconcile /\ [][Next]_vars

---------------------------------------------------------------------------
(* Callers of the record store: each repeats gen_id() and then insert() of  *)
(* a record carrying the id it got.  Calls interleave at whole-call         *)
(* granularity.  With lock = "none" the callers use no mutual exclusion;    *)
(* otherwise a caller runs the two calls holding the lock.                  *)

\* the ids held by callers that have not inserted them yet
Pending == {c \in Callers : pc[c] = "has_id"}

InitCallers ==
    /\ rows = <<>>
    /\ call = NoCall
    /\ ret = NoRet
    /\ adaptsLists = FALSE
    /\ columns = FieldNames
    /\ shape = <<>>
    /\ pc = [c \in Callers |-> "idle"]
    /\ got = [c \in Callers |-> 0]
    /\ lock = "none"

InitSerial ==
    /\ rows = <<>>
    /\ call = NoCall
    /\ ret = NoRet
    /\ adaptsLists = FALSE
    /\ columns = FieldNames
    /\ shape = <<>>
    /\ pc = [c \in Callers |-> "idle"]
    /\ got = [c \in Callers |-> 0]
    /\ lock = "free"

\* caller c enters its critical section
Acquire(c) ==
    /\ lock = "free"
    /\ pc[c] = "idle"
    /\ lock' = c
    /\ UNCHANGED <<rows, call, ret, adaptsLists, columns, shape, pc, got>>

\* caller c leaves its critical section, after its insert
Release(c) ==
    /\ lock = c
    /\ pc[c] = "idle"
    /\ lock' = "free"
    /\ UNCHANGED <<rows, call, ret, adaptsLists, columns, shape, pc, got>>

\* caller c calls gen_id()
GenIdBy(c) ==
    /\ lock \in {"none", c}
    /\ pc[c] = "idle"
    /\ Len(rows) + Cardinality(Pending) < MaxRows
    /\ got' = [got EXCEPT ![c] = gen_id(rows)]
    /\ pc' = [pc EXCEPT ![c] = "has_id"]
    /\ call' = [op |-> "gen_id", caller |-> c, pre |-> rows]
    /\ ret' = [kind |-> "int", val |-> gen_id(rows)]
    /\ UNCHANGED <<rows, adaptsLists, columns, shape, lock>>

\* caller c calls insert(data) with data.id the id it got
InsertBy(c, data) ==
    /\ lock \in {"none", c}
    /\ pc[c] = "has_id"
    /\ rows' = insert(rows, [data EXCEPT !.id = got[c]])
    /\ pc' = [pc EXCEPT ![c] = "idle"]
    /\ call' = [op |-> "insert", caller |-> c,
                data |-> [data EXCEPT !.id = got[c]], pre |-> rows]
    /\ ret' = NoRet
    /\ UNCHANGED <<adaptsLists, columns, shape, got, lock>>

NextCallers ==
    \/ \E c \in Callers : GenIdBy(c)
    \/ \E c \in Callers, data \in ReconcileRecords : InsertBy(c, data)

SpecCallers == InitCallers /\ [][NextCallers]_vars

NextSerial ==
    \/ \E c \in Callers : Acquire(c)
    \/ \E c \in Callers : GenIdBy(c)
    \/ \E c \in Callers, data \in ReconcileRecords : InsertBy(c, data)
    \/ \E c \in Callers : Release(c)

SpecSerial == InitSerial /\ [][NextSerial]_vars

---------------------------------------------------------------------------
(* The updating calls, one call on each table that inserts with generated   *)
(* ids produce.                                                             *)

\* the records handed to update_list
ListRecords ==
    {Bangumi(i, <<"B">>, FALSE, 0, <<<<"g">>>>, <<<<"y">>>>) : i \in 1..MaxId}

UpdateLists == SeqUpTo(ListRecords, MaxListLen)

\* the title_raw handed to update_rss: "A", "B" and "1", which no row has
RssTitleRaws == TitleRaws \cup {<<"1">>}

InitUpdates ==
    /\ rows \in ReconcileStores
    /\ call = NoCall
    /\ ret = NoRet
    /\ adaptsLists \in BOOLEAN
    /\ InitOthers

UpdateList(data) ==
    /\ call = NoCall
    /\ rows' = update_list(rows, data).tbl
    /\ call' = [op |-> "update_list", data |-> data, pre |-> rows]
    /\ ret' = IF update_list(rows, data).raised
              THEN [kind |-> "raised"] ELSE [kind |-> "returned"]
    /\ UNCHANGED <<adaptsLists, others>>

UpdateRss(title_raw, rss_set) ==
    /\ call = NoCall
    /\ rows' = update_rss(rows, title_raw, rss_set)
    /\ call' = [op |-> "update_rss", title_raw |-> title_raw,
                rss_set |-> rss_set, pre |-> rows]
    /\ ret' = [kind |-> "returned"]
    /\ UNCHANGED <<adaptsLists, others>>

NextUpdates ==
    \/ \E data \in StoreRecords : Update(data)
    \/ \E data \in UpdateLists : UpdateList(data)
    \/ \E t \in RssTitleRaws, l \in FeedIds : UpdateRss(t, l)
    \/ \E d \in TitleDicts, f \in FeedIds : MatchList(d, f)
    \/ \E t \in TitleLists, f \in FeedIds : NotExistTitles(t, f)

SpecUpdates == InitUpdates /\ [][NextUpdates]_vars

---------------------------------------------------------------------------
(* Schema synchronizer: update_table called up to MaxSyncs times in a row   *)
(* on a table that is absent, partial or complete for the shape.            *)

RECURSIVE SubSeqs(_)
\* the sub-sequences of pool, order kept
SubSeqs(pool) ==
    IF pool = <<>> THEN {<<>>}
    ELSE SubSeqs(Tail(pool)) \cup {<<Head(pool)>> \o x : x \in SubSeqs(Tail(pool))}

\* the column lists of the table before the call; <<>> is the absent table
ColumnLists ==
    {c \in SubSeqs(<<"id", "ID", "title_raw", "added", "filter", "rss_link", "old">>) :
        ~(\E i, j \in 1..Len(c) : c[i] = "id" /\ c[j] = "ID")}

\* the value a row of kind v holds in column c
CellOf(c, v) ==
    IF c \in {"id", "ID", "added"} THEN v ELSE IF v = 0 THEN <<>> ELSE <<"x">>

\* the rows of a table with columns cols
RowsOver(cols) ==
    IF cols = <<>> THEN {<<>>}
    ELSE {[i \in 1..Len(vs) |->
              [c \in {cols[k] : k \in 1..Len(cols)} |-> CellOf(c, vs[i])]] :
            vs \in SeqUpTo({0, 1}, MaxRows)}

\* one item of a record shape
Field(key, value) == [key |-> key, value |-> value]

\* record shapes: id, title_raw and added, then filter and rss_link or not,
\* with example values [], ["x"], ["f"] and ["f", "g"]
Shapes ==
    {<<Field("id", 0), Field("title_raw", <<"t">>), Field("added", FALSE)>> \o f \o r :
        f \in {<<>>, <<Field("filter", <<<<"f">>>>)>>,
               <<Field("filter", <<<<"f">>, <<"g">>>>)>>},
        r \in {<<>>, <<Field("rss_link", <<>>)>>, <<Field("rss_link", <<<<"x">>>>)>>}}

InitSchema ==
    /\ columns \in ColumnLists
    /\ rows \in RowsOver(columns)
    /\ shape \in Shapes
    /\ call = NoCall
    /\ ret = NoRet
    /\ adaptsLists = FALSE
    /\ pc = [c \in Callers |-> "idle"]
    /\ got = [c \in Callers |-> 0]
    /\ lock = "none"

UpdateTable ==
    /\ call = NoCall \/ (call.op = "update_table" /\ call.nth < MaxSyncs)
    /\ columns' = update_table(columns, rows, shape).cols
    /\ rows' = update_table(columns, rows, shape).tbl
    /\ call' = [op    |-> "update_table",
                nth   |-> IF call = NoCall THEN 1 ELSE call.nth + 1,
                start |-> IF call = NoCall THEN [cols |-> columns, tbl |-> rows]
                          ELSE call.start,
                pre   |-> [cols |-> columns, tbl |-> rows]]
    /\ ret' = IF update_table(columns, rows, shape).raised
              THEN [kind |-> "raised"] ELSE [kind |-> "returned"]
    /\ UNCHANGED <<adaptsLists, shape, pc, got, lock>>

NextSchema == UpdateTable

SpecSchema == InitSchema /\ [][NextSchema]_vars

---------------------------------------------------------------------------
(* Properties of the title reconciler (checked under Spec) *)

\* s.split(",") holds no element twice
NoDuplicate(lst) == \A a, b \in 1..Len(lst) : a # b => lst[a] # lst[b]

\* feed_id is a member of the comma-separated feed set rss_set
IsMember(feed_id, rss_set) == ListIn(feed_id, Split(rss_set))

\* some candidate title of the mapping contains title_raw
SomeCandidateHas(title_dict, title_raw) ==
    \E k \in 1..Len(title_dict) : StrIn(title_raw, title_dict[k].title)

\* title contains some title_raw stored in tbl
Tracked(tbl, title) == \E j \in 1..Len(tbl) : StrIn(tbl[j].title_raw, title)

\* title contains the title_raw of a record of tbl whose feed set has feed_id
SeenVia(tbl, title, feed_id) ==
    \E j \in 1..Len(tbl) :
        IsMember(feed_id, tbl[j].rss_link) /\ StrIn(tbl[j].title_raw, title)

MatchListDone == call.op = "match_list" /\ ret.kind = "returned"

NotExistDone == call.op = "not_exist_titles" /\ ret.kind = "returned"

\* C1: match_list returns exactly the items of the input mapping whose title
\* contains no stored title_raw, in their order and with their metadata.
C1_MatchListReturnsUntracked ==
    call.op = "match_list" =>
        /\ ret.kind = "returned"
        /\ ret.val = SelectSeq(call.title_dict,
                               LAMBDA item : ~Tracked(call.pre, item.title))

\* a call on a non-empty table that consumed one candidate and returned the other
C1_Witness ==
    /\ MatchListDone
    /\ call.pre # <<>>
    /\ Len(call.title_dict) = 2
    /\ Len(ret.val) = 1
    /\ ret.val[1] = call.title_dict[2]

\* C2: after match_list, every stored record whose title_raw is in some candidate
\* title has feed_id as a member of its feed set, appended at the end exactly
\* when it was not a member before (stated for the feed ids that hold no comma).
C2_MatchedRecordsGainFeed ==
    MatchListDone /\ ~StrIn(<<",">>, call.rss_link) =>
        \A i \in 1..Len(rows) :
            SomeCandidateHas(call.title_dict, call.pre[i].title_raw) =>
                /\ IsMember(call.rss_link, rows[i].rss_link)
                /\ rows[i].rss_link =
                      IF IsMember(call.rss_link, call.pre[i].rss_link)
                      THEN call.pre[i].rss_link
                      ELSE call.pre[i].rss_link \o <<",">> \o call.rss_link

\* C3: not_exist_titles leaves no title that contains the title_raw of a record
\* whose feed set already had feed_id.
C3_EverySeenTitleRemoved ==
    NotExistDone =>
        \A k \in 1..Len(ret.val) : ~SeenVia(call.pre, ret.val[k], call.rss_link)

\* C4: after not_exist_titles returns on a non-empty table, every record whose
\* feed set lacked feed_id has it appended, as comma-joined text.
C4_NewFeedAlwaysAppended ==
    NotExistDone /\ call.pre # <<>> =>
        \A i \in 1..Len(rows) :
            ~IsMember(call.rss_link, call.pre[i].rss_link) =>
                rows[i].rss_link = call.pre[i].rss_link \o <<",">> \o call.rss_link

\* C5: not_exist_titles returns, and the titles not already seen via feed_id
\* are all in the result, in their original order.
C5_OnlySeenTitlesRemoved ==
    call.op = "not_exist_titles" =>
        /\ ret.kind = "returned"
        /\ SelectSeq(ret.val, LAMBDA t : ~SeenVia(call.pre, t, call.rss_link))
              = SelectSeq(call.titles, LAMBDA t : ~SeenVia(call.pre, t, call.rss_link))

\* no record's rss_link, split on commas, holds an identifier twice
NoDuplicateLinks(tbl) == \A i \in 1..Len(tbl) : NoDuplicate(Split(tbl[i].rss_link))

\* C6 as stated: no reachable table holds a duplicate feed identifier.
C6_NeverDuplicateLinks == NoDuplicateLinks(rows)

\* C6 amended: a match_list or not_exist_titles call whose feed_id holds no comma,
\* on a table without duplicates, leaves a table without duplicates.
C6_CommaFreeFeedKeepsLinksDistinct ==
    /\ call.op \in {"match_list", "not_exist_titles"}
    /\ ~StrIn(<<",">>, call.rss_link)
    /\ NoDuplicateLinks(call.pre)
    => NoDuplicateLinks(rows)

\* a comma-free feed_id was appended to a stored feed set by either call
C6_Witness ==
    /\ call.op \in {"match_list", "not_exist_titles"}
    /\ ~StrIn(<<",">>, call.rss_link)
    /\ NoDuplicateLinks(call.pre)
    /\ \E i \in 1..Len(rows) :
          /\ rows[i].rss_link # call.pre[i].rss_link
          /\ Len(Split(rows[i].rss_link)) >= 3

---------------------------------------------------------------------------
(* Properties of the record codec (checked under SpecCodec) *)

\* no string of lst holds a comma
CommaFree(lst) == \A k \in 1..Len(lst) : ~StrIn(<<",">>, lst[k])

Decoded == call.op = "codec" /\ ret.kind = "codec"

\* C7 as stated: decode(encode(r)) = r for every record whose filter and rss_link
\* are both non-empty.
C7_RoundTrip ==
    Decoded /\ call.data.filter # <<>> /\ call.data.rss_link # <<>>
    => ret.dec = call.data

\* C7 amended: decode(encode(r)) = r for every record whose filter and rss_link
\* are both non-empty and hold no string with a comma in it.
C7_RoundTripCommaFree ==
    /\ Decoded
    /\ call.data.filter # <<>> /\ call.data.rss_link # <<>>
    /\ CommaFree(call.data.filter) /\ CommaFree(call.data.rss_link)
    => ret.dec = call.data

\* a record with a set flag, a zero id and two-element sequences came back unchanged
C7_Witness ==
    /\ Decoded
    /\ call.data.added /\ ~call.data.eps_collect
    /\ call.data.id = 0 /\ call.data.season = 1
    /\ Len(call.data.filter) = 2 /\ Len(call.data.rss_link) = 2
    /\ CommaFree(call.data.filter) /\ CommaFree(call.data.rss_link)
    /\ ret.enc.added = 1
    /\ ret.dec = call.data

---------------------------------------------------------------------------
(* Properties of the record store (checked under SpecStore) *)

\* the number of rows of tbl with the given id
IdCount(tbl, id) == Cardinality(IdMatches(tbl, id))

\* both sequences of data are non-empty and hold no string with a comma
CleanSequences(data) ==
    /\ data.filter # <<>> /\ data.rss_link # <<>>
    /\ CommaFree(data.filter) /\ CommaFree(data.rss_link)

\* C8 as stated: when some stored row has r.id, update(r) returns true and
\* search_id(r.id) then returns r.
C8_UpdateThenSearch ==
    call.op = "update" /\ IdCount(call.pre, call.data.id) >= 1 =>
        /\ ret.val = TRUE
        /\ search_id(rows, call.data.id) = [found |-> TRUE, data |-> call.data]

\* C8 amended: when exactly one stored row has r.id, update(r) returns true;
\* when moreover r's filter and rss_link are non-empty and hold no comma,
\* search_id(r.id) then returns r.
C8_UpdateUniqueThenSearch ==
    call.op = "update" /\ IdCount(call.pre, call.data.id) = 1 =>
        /\ ret.val = TRUE
        /\ CleanSequences(call.data) =>
              search_id(rows, call.data.id) = [found |-> TRUE, data |-> call.data]

\* an update that changed the one row with r.id, in a table of two rows
C8_Witness ==
    /\ call.op = "update"
    /\ Len(call.pre) = 2
    /\ IdCount(call.pre, call.data.id) = 1
    /\ CleanSequences(call.data)
    /\ rows # call.pre
    /\ ret.val = TRUE
    /\ search_id(rows, call.data.id) = [found |-> TRUE, data |-> call.data]

\* C9: update never raises; when no row has r.id it returns false and leaves every
\* row as it was; it returns false whenever it affected zero or several rows.
C9_UpdateFalseResult ==
    call.op = "update" =>
        /\ ret.kind = "bool"
        /\ IdCount(call.pre, call.data.id) = 0 => (ret.val = FALSE /\ rows = call.pre)
        /\ IdCount(call.pre, call.data.id) # 1 => ret.val = FALSE

\* an update with an id that no row of a non-empty table has
C9_Witness ==
    /\ call.op = "update"
    /\ call.pre # <<>>
    /\ IdCount(call.pre, call.data.id) = 0
    /\ ret.val = FALSE
    /\ rows = call.pre

\* C10: gen_id returns 1 on an empty table and otherwise the greatest stored id
\* plus one, which no stored row has.
C10_GenId ==
    call.op = "gen_id" =>
        /\ rows = <<>> => ret.val = 1
        /\ rows # <<>> =>
              /\ \E i \in 1..Len(rows) : rows[i].id = ret.val - 1
              /\ \A i \in 1..Len(rows) : rows[i].id <= ret.val - 1
        /\ \A i \in 1..Len(rows) : rows[i].id # ret.val

\* gen_id on a table whose ids have a gap: {1, 3} gives 4
C10_Witness ==
    /\ call.op = "gen_id"
    /\ Len(rows) = 2
    /\ {rows[i].id : i \in 1..Len(rows)} = {1, 3}
    /\ ret.val = 4

---------------------------------------------------------------------------
(* Properties of the callers (checked under SpecSerial and SpecCallers) *)

\* C11: when gen_id and insert run as one critical section, from an empty
\* store the stored ids are pairwise distinct, and each inserted id is greater
\* than every id inserted before it.
C11_SerialIdsDistinctIncreasing ==
    /\ \A i, j \in 1..Len(rows) : i # j => rows[i].id # rows[j].id
    /\ call.op = "insert" =>
          \A i \in 1..Len(call.pre) : call.pre[i].id < call.data.id
    /\ \A i, j \in 1..Len(rows) : i < j => rows[i].id < rows[j].id

\* both callers have inserted a record, one after the other
C11_Witness ==
    /\ Len(rows) = 2
    /\ got["c1"] = 2 /\ got["c2"] = 1
    /\ call.op = "insert" /\ call.caller = "c1"
    /\ rows[2].id = 2

\* C18: without mutual exclusion, two callers that have each inserted the id
\* they got, and got the same id, leave two rows with that id in the store.
C18_SameIdInsertedTwice ==
    \A c, d \in Callers :
        (c # d /\ pc[c] = "idle" /\ pc[d] = "idle" /\ got[c] # 0 /\ got[c] = got[d])
            => IdCount(rows, got[c]) >= 2

\* both callers got id 1 from the empty store and the store holds it twice
C18_Witness ==
    /\ got["c1"] = 1 /\ got["c2"] = 1
    /\ pc["c1"] = "idle" /\ pc["c2"] = "idle"
    /\ Len(rows) = 2
    /\ rows[1].id = 1 /\ rows[2].id = 1

---------------------------------------------------------------------------
(* Properties of the updating calls (checked under SpecUpdates) *)

\* data is one of the records of the sequence lst
Returned(data, lst) == \E k \in 1..Len(lst) : lst[k] = data

\* rows i of tbl and pre differ in no column other than rss_link and added
SameButFeed(tbl, pre, i) ==
    \A f \in {FieldNames[k] : k \in 1..Len(FieldNames)} \ {"rss_link", "added"} :
        tbl[i][f] = pre[i][f]

\* C12: after update_rss(title_raw, feed_set) every row with that title_raw has
\* rss_link = feed_set and added = 0 and is returned by not_added(), its other
\* columns and every other row are unchanged; and a row whose rss_link was
\* changed by match_list or not_exist_titles has added = 0.
C12_UpdateRssResetsAdded ==
    /\ call.op = "update_rss" =>
          /\ Len(rows) = Len(call.pre)
          /\ \A i \in 1..Len(rows) :
                IF call.pre[i].title_raw = call.title_raw
                THEN /\ rows[i].rss_link = call.rss_set
                     /\ rows[i].added = 0
                     /\ Returned(db_to_data(rows[i]), not_added(rows))
                     /\ SameButFeed(rows, call.pre, i)
                ELSE rows[i] = call.pre[i]
    /\ call.op \in {"match_list", "not_exist_titles"} =>
          /\ Len(rows) = Len(call.pre)
          /\ \A i \in 1..Len(rows) :
                rows[i].rss_link # call.pre[i].rss_link =>
                    /\ rows[i].added = 0
                    /\ Returned(db_to_data(rows[i]), not_added(rows))

\* update_rss reset one of two rows, whose added flag was set, and left the other
C12_Witness ==
    /\ call.op = "update_rss"
    /\ Len(rows) = 2
    /\ call.pre[1].title_raw = call.title_raw /\ call.pre[1].added = 1
    /\ call.pre[2].title_raw # call.title_raw
    /\ rows[1].rss_link = call.rss_set /\ rows[1].rss_link # call.pre[1].rss_link
    /\ rows[1].added = 0 /\ rows[2].added = 1
    /\ Len(not_added(rows)) = 1

\* C19: update, update_list, update_rss, match_list and not_exist_titles leave
\* the number of rows and the id of every row as they were.
C19_UpdatesKeepIds ==
    call.op \in {"update", "update_list", "update_rss", "match_list", "not_exist_titles"} =>
        /\ Len(rows) = Len(call.pre)
        /\ \A i \in 1..Len(rows) : rows[i].id = call.pre[i].id

\* an update that rewrote the row with id 2 from a record of that id
C19_Witness ==
    /\ call.op = "update"
    /\ Len(rows) = 2
    /\ call.data.id = 2
    /\ rows[2] # call.pre[2]
    /\ rows[2].id = 2 /\ rows[1] = call.pre[1]

---------------------------------------------------------------------------
(* Further properties of the title reconciler (checked under Spec) *)

\* C13: when no candidate title contains a stored title_raw, match_list returns
\* the input mapping and leaves every row as it was, whatever the feed_id.
C13_NoMatchChangesNothing ==
    (/\ call.op = "match_list"
     /\ \A k \in 1..Len(call.title_dict) : ~Tracked(call.pre, call.title_dict[k].title))
    => /\ ret.kind = "returned"
       /\ ret.val = call.title_dict
       /\ rows = call.pre

\* a call with a candidate and a feed_id new to a non-empty store changed nothing
C13_Witness ==
    /\ MatchListDone
    /\ call.pre # <<>>
    /\ call.title_dict # <<>>
    /\ \A k \in 1..Len(call.title_dict) : ~Tracked(call.pre, call.title_dict[k].title)
    /\ \A i \in 1..Len(call.pre) : ~IsMember(call.rss_link, call.pre[i].rss_link)
    /\ ret.val = call.title_dict
    /\ rows = call.pre

\* the candidates of the call that were removed on account of stored pair j
ClaimedBy(j) ==
    {k \in 1..Len(call.title_dict) :
        /\ ~Returned(call.title_dict[k], ret.val)
        /\ FirstMatch(call.pre, call.title_dict[k].title) = j}

\* C17: in one match_list call each stored pair removes at most one candidate.
C17_PatternClaimsAtMostOne ==
    MatchListDone =>
        \A j \in 1..Len(call.pre) : Cardinality(ClaimedBy(j)) <= 1

\* the identifiers of the comma-separated feed set rss_set
FeedSet(rss_set) == {Split(rss_set)[k] : k \in 1..Len(Split(rss_set))}

\* C20: after match_list or not_exist_titles every row's feed set holds every
\* identifier it held before the call.
C20_FeedSetsOnlyGrow ==
    call.op \in {"match_list", "not_exist_titles"} =>
        /\ Len(rows) = Len(call.pre)
        /\ \A i \in 1..Len(rows) :
              FeedSet(call.pre[i].rss_link) \subseteq FeedSet(rows[i].rss_link)

---------------------------------------------------------------------------
(* Further properties of the record codec (checked under SpecCodec) *)

\* C16: a record whose rss_link is [] is encoded with rss_link "" and decoded
\* with rss_link [""], not []; likewise for filter.
C16_EmptySequenceBecomesEmptyString ==
    Decoded =>
        /\ call.data.rss_link = <<>> =>
              /\ ret.enc.rss_link = <<>>
              /\ ret.dec.rss_link = <<<<>>>>
              /\ ret.dec.rss_link # call.data.rss_link
        /\ call.data.filter = <<>> =>
              /\ ret.enc.filter = <<>>
              /\ ret.dec.filter = <<<<>>>>
              /\ ret.dec.filter # call.data.filter

\* a record with rss_link [] and a two-element filter was encoded and decoded
C16_Witness ==
    /\ Decoded
    /\ call.data.rss_link = <<>>
    /\ Len(call.data.filter) = 2
    /\ Len(ret.dec.rss_link) = 1
    /\ ret.dec.rss_link[1] = <<>>
    /\ ret.dec # call.data

---------------------------------------------------------------------------
(* Properties of the schema synchronizer (checked under SpecSchema) *)

\* the set of the column names cols
ColumnSet(cols) == {cols[k] : k \in 1..Len(cols)}

\* the table has a column for every field of the shape
Complete(cols, shp) == \A i \in 1..Len(shp) : shp[i].key \in ColumnSet(cols)

\* C14: update_table returns; the table then has exactly one column for every
\* field, every column it had, no other new column, and in every row the value
\* each old column held.
C14_TableGetsEveryField ==
    call.op = "update_table" =>
        /\ ret.kind = "returned"
        /\ \A i \in 1..Len(shape) :
              Cardinality({k \in 1..Len(columns) : columns[k] = shape[i].key}) = 1
        /\ ColumnSet(call.pre.cols) \subseteq ColumnSet(columns)
        /\ ColumnSet(columns) = ColumnSet(call.pre.cols) \cup ColumnSet(Keys(shape))
        /\ Len(rows) = Len(call.pre.tbl)
        /\ \A r \in 1..Len(rows) :
              \A c \in ColumnSet(call.pre.cols) : rows[r][c] = call.pre.tbl[r][c]

\* C15: a second update_table in a row leaves the columns and the rows as the
\* first left them, and a call on a table that has a column for every field
\* changes nothing.
C15_UpdateTableIdempotent ==
    call.op = "update_table" =>
        /\ call.nth >= 2 => (columns = call.pre.cols /\ rows = call.pre.tbl)
        /\ Complete(call.pre.cols, shape) =>
              (columns = call.pre.cols /\ rows = call.pre.tbl /\ ret.kind = "returned")

\* a second call after a first one that added columns to a partial table with rows
C15_Witness ==
    /\ call.op = "update_table"
    /\ call.nth = 2
    /\ ret.kind = "returned"
    /\ call.start.cols # <<>>
    /\ call.start.tbl # <<>>
    /\ Len(columns) > Len(call.start.cols)
    /\ Complete(columns, shape)
    /\ columns = call.pre.cols /\ rows = call.pre.tbl

====
